---- MODULE Spec2Model ----
(***************************************************************************)
(* Model of the crewai-guardrails example scripts: a crew runs its tasks   *)
(* in order, a task callback (or the script itself, after kickoff)         *)
(* validates the raw output with a Guard, and the script exits.            *)
(*                                                                         *)
(* The language model, the crew runtime and the Guardrails library are     *)
(* collaborators: the text a task produces, whether a model call fails,    *)
(* and the fields of the outcome a hub validator returns are chosen        *)
(* nondeterministically from small sets.  Everything the scripts compute   *)
(* themselves (sentence counting, fence stripping, the JSON shape check,   *)
(* the if/elif chains of the callbacks, the exit status) is computed.      *)
(*                                                                         *)
(* Texts are sequences of one-character strings.                           *)
(***************************************************************************)
EXTENDS Integers, Sequences, FiniteSets, TLC

VARIABLES
    script,     \* which example script is running
    pc,         \* position of the script's __main__ / of the crew
    cur,        \* index of the task the crew is working on (0 before kickoff)
    status,     \* per task: idle / generated / evaluated / returned / raised / failed
    raw,        \* per task: output.raw recorded for the task
    genCalls,   \* per task: number of generation calls made for it
    guardBuilt, \* per task: number of Guard objects constructed for it
    valCalls,   \* per task: number of guard.validate / guard.parse calls
    branch,     \* per task: the branch its validation code ended in
    hints,      \* per task: corrective hints appended to its prompt
    outcome,    \* ValidationOutcome held by the callback that is running
    exc,        \* exception that interrupted the crew, if any
    printed,    \* what __main__ has printed: a set of tags
    exitStatus, \* -1 while running, then the process exit status
    vpc,        \* validator harness: position
    vValue,     \* validator harness: the value handed to validate()
    vN,         \* validator harness: the n the validator was built with
    vResult,    \* validator harness: the result validate() returned
    hpc,        \* call harness: position
    hIn,        \* call harness: the code that is called and its arguments
    hOut        \* call harness: what the call returned or raised

vars == <<script, pc, cur, status, raw, genCalls, guardBuilt, valCalls, branch,
          hints, outcome, exc, printed, exitStatus, vpc, vValue, vN, vResult,
          hpc, hIn, hOut>>

pipeVars == <<script, pc, cur, status, raw, genCalls, guardBuilt, valCalls,
              branch, hints, outcome, exc, printed, exitStatus>>

callVars == <<hpc, hIn, hOut>>

valVars == <<vpc, vValue, vN, vResult, callVars>>

-----------------------------------------------------------------------------
(* Bounds *)

MaxLen == 4     \* longest enumerated text handed to the validator harness
MaxN   == 3     \* largest n the validator harness builds a validator with
MaxPad == 1     \* longest text put before and after a sample word or object
MaxRawLen == 4  \* longest raw text of fence characters, braces and letters

-----------------------------------------------------------------------------
(* Texts *)

Alphabet == {"A", " ", ".", "!", "?"}

RECURSIVE SeqsUpTo(_, _)
SeqsUpTo(S, k) ==
    IF k = 0 THEN {<<>>}
    ELSE LET shorter == SeqsUpTo(S, k - 1)
         IN  shorter \cup {Append(s, c) : s \in {t \in shorter : Len(t) = k - 1}, c \in S}

\* "A. B! C?"
ExampleText == <<"A", ".", " ", "B", "!", " ", "C", "?">>

Whitespace == {" ", "\n", "\t", "\r"}

\* str.strip(): drop leading and trailing whitespace
RECURSIVE LStripChars(_, _)
LStripChars(s, chars) ==
    IF s # <<>> /\ Head(s) \in chars THEN LStripChars(Tail(s), chars) ELSE s

RECURSIVE RStripChars(_, _)
RStripChars(s, chars) ==
    IF s # <<>> /\ s[Len(s)] \in chars
    THEN RStripChars(SubSeq(s, 1, Len(s) - 1), chars)
    ELSE s

\* str.strip(chars): drop every leading and trailing character that is a
\* member of chars
PyStripChars(s, chars) == RStripChars(LStripChars(s, chars), chars)

PyStrip(s) == PyStripChars(s, Whitespace)

-----------------------------------------------------------------------------
(* crew_nv1/main.py: HasExactlyNSentences *)

\* a Python value handed to validate(): a str, or something that is not a str
StrValue(t) == [type |-> "str", chars |-> t]
IntValue    == [type |-> "int", chars |-> <<>>]
NoneValue   == [type |-> "NoneType", chars |-> <<>>]

PassResult == [outcome |-> "pass", error_message |-> <<>>]
FailResult(msg) == [outcome |-> "fail", error_message |-> msg]
NoResult == [outcome |-> "none", error_message |-> <<>>]
\* validate() left by an exception instead of a result
Raised(type) == [outcome |-> "raise", error_message |-> <<type>>]

\* variant: only the full stop ends a sentence
IsDelimiterDotOnly(c) == c = "."

\* delimiters = r"[.!?]"
IsDelimiter(c) == c \in {".", "!", "?"}

\* re.split(delimiters, value): the fragments between the delimiters, the
\* empty ones included
RECURSIVE ReSplit(_, _)
ReSplit(s, frag) ==
    IF s = <<>> THEN <<frag>>
    ELSE IF IsDelimiter(Head(s)) THEN <<frag>> \o ReSplit(Tail(s), <<>>)
    ELSE ReSplit(Tail(s), Append(frag, Head(s)))

\* [s for s in fragments if s.strip()]
KeepFragment(s) == PyStrip(s) # <<>>

Sentences(value) == SelectSeq(ReSplit(value, <<>>), KeepFragment)

\* variant: the two numbers of the message exchanged
FailMessageSwapped(n, count) ==
    <<"Esperava ", count, " frases, mas encontrou ", n, ".">>

\* f"Esperava {self._n} frases, mas encontrou {count}."
FailMessage(n, count) ==
    <<"Esperava ", n, " frases, mas encontrou ", count, ".">>

\* the isinstance(value, str) test at the head of validate()
IsInstanceStr(value) == value.type = "str"

\* variant: no isinstance test, so re.split raises TypeError on a non-str
ValidateNoTypeCheck(value, n) ==
    IF ~IsInstanceStr(value)
    THEN Raised("TypeError")
    ELSE LET count == Len(Sentences(value.chars))
         IN  IF count = n THEN PassResult
             ELSE FailResult(FailMessage(n, count))

HasExactlyNSentences_validate(value, n) ==
    IF ~IsInstanceStr(value)
    THEN FailResult(<<"Input should be a string.">>)
    ELSE LET count == Len(Sentences(value.chars))
         IN  IF count = n THEN PassResult
             ELSE FailResult(FailMessage(n, count))

\* The values and the n the harness draws
HarnessTexts == SeqsUpTo(Alphabet, MaxLen) \cup {ExampleText}
HarnessValues == {StrValue(t) : t \in HarnessTexts} \cup {IntValue, NoneValue}

-----------------------------------------------------------------------------
(* The example scripts and their crews *)

Scripts == {"nv1_main", "nv1_hub", "nv2_main", "nv2_hub",
            "nv3_main", "nv3_hub", "nv4_main", "nv5_main"}

\* Crew(tasks=[...]) of each script
Tasks(s) ==
    CASE s \in {"nv1_main", "nv1_hub"} -> <<"research_task", "write_task">>
      [] s \in {"nv2_main", "nv2_hub", "nv3_main"} -> <<"analysis_task", "report_task">>
      [] s = "nv3_hub"  -> <<"response_task">>
      [] s = "nv4_main" -> <<"research_task", "writing_task", "review_task">>
      [] s = "nv5_main" -> <<"scrape_content_task", "structure_data_task">>

NumTasks(s) == Len(Tasks(s))

\* Task(callback=...) of task i of script s
Callback(s, i) ==
    CASE s = "nv2_hub"  /\ i = 1 -> "validate_sentiment_analysis"
      [] s = "nv3_main" /\ i = 1 -> "validate_sentiment_analysis_with_reask"
      [] s = "nv3_hub"  /\ i = 1 -> "validate_jailbreak_attempt"
      [] s = "nv4_main" /\ i = 3 -> "validate_report_contains_footer"
      [] s = "nv5_main" /\ i = 2 -> "validate_extracted_data"
      [] OTHER -> "none"

\* the nv1 scripts validate result.raw, the output of the last task, in
\* __main__ after kickoff has returned
ValidatedInMain(s, i) == s \in {"nv1_main", "nv1_hub"} /\ i = NumTasks(s)

\* num_sentences = 3
num_sentences == 3

\* Sample raw outputs
EmptyText  == <<>>
WordText   == <<"A">>
TwoText    == <<"A", ".", " ", "B">>
BlankText  == <<" ">>
ObjText    == <<"{", "a", "}">>
\* BT stands for the backtick character of a code fence
BT == "BT"
FencedText == <<BT, BT, BT, "j", "s", "o", "n", "\n", "{", "a", "}", "\n", BT, BT, BT>>
JsonWord   == <<"j", "s", "o", "n">>
ArrayText  == <<"[", "a", "]">>

\* what the model may answer for task i of script s
RawOutputs(s, i) ==
    CASE s = "nv1_main" /\ i = 2 -> {EmptyText, WordText, TwoText, ExampleText, BlankText}
      [] s = "nv5_main" /\ i = 2 -> {EmptyText, WordText, ObjText, FencedText, JsonWord, ArrayText}
      [] OTHER -> {EmptyText, WordText}

\* Python truthiness of a str: "if not raw_output_str"
IsEmpty(t) == t = <<>>

-----------------------------------------------------------------------------
(* Guard outcomes: the fields of ValidationOutcome the callbacks read *)

NoOutcome == [validation_passed |-> FALSE, has_output |-> FALSE,
              has_reask |-> FALSE, error |-> "unset"]

\* validation_passed, validated_output is not None, reask is not None, error
Outcomes ==
    {[validation_passed |-> p, has_output |-> o, has_reask |-> r,
      error |-> IF p THEN "None" ELSE e] :
        p \in BOOLEAN, o \in BOOLEAN, r \in BOOLEAN, e \in {"E1", "E2"}}

NoExc == [type |-> "none", msg |-> <<>>]
Exc(type, msg) == [type |-> type, msg |-> msg]

\* variant: only the white space is stripped
JsonOutputStrNoFence(raw_output_str) == PyStrip(raw_output_str)

\* crew_nv5/main.py: strip(), then strip(fence + 'json'), then strip(fence),
\* then strip(); strip(chars) takes its argument as a set of characters
JsonOutputStr(raw_output_str) ==
    PyStrip(PyStripChars(PyStripChars(PyStrip(raw_output_str),
                                      {BT, "j", "s", "o", "n"}),
                         {BT}))

\* variant: the shape check only asks for a non-empty string
LooksLikeJsonObjectLax(t) == t # <<>>

\* json_output_str.startswith('{') and json_output_str.endswith('}')
LooksLikeJsonObject(t) == t # <<>> /\ t[1] = "{" /\ t[Len(t)] = "}"

-----------------------------------------------------------------------------
(* The if/elif chains of the callbacks, applied to a ValidationOutcome *)

Returns(b) == [returns |-> TRUE, branch |-> b, exc |-> NoExc]
Raises(b, type, msg) == [returns |-> FALSE, branch |-> b, exc |-> Exc(type, msg)]

\* variant: the reask branch only prints and returns
VerdictSentimentReaskSilent(o) ==
    IF o.validation_passed /\ o.has_output THEN Returns("passed")
    ELSE IF ~o.validation_passed /\ o.has_reask
    THEN Returns("reask")
    ELSE IF ~o.validation_passed
    THEN Raises("failed", "ValueError",
                <<"Guardrails falhou na validacao/extracao. Erro: ", o.error>>)
    ELSE Raises("no_data", "ValueError",
                <<"Guardrails retornou sucesso mas sem dados validados.">>)

\* variant: the messages name the task and the attempt
VerdictSentimentReaskNamesStep(o) ==
    IF o.validation_passed /\ o.has_output THEN Returns("passed")
    ELSE IF ~o.validation_passed /\ o.has_reask
    THEN Raises("reask", "ValueError",
                <<"analysis_task", "1", "Validacao Guardrails falhou, 'reask' sugerido. Erro: ",
                  o.error, ".">>)
    ELSE IF ~o.validation_passed
    THEN Raises("failed", "ValueError",
                <<"analysis_task", "Guardrails falhou na validacao/extracao. Erro: ", o.error>>)
    ELSE Raises("no_data", "ValueError",
                <<"Guardrails retornou sucesso mas sem dados validados.">>)

\* crew_nv3/main.py: validate_sentiment_analysis_with_reask
VerdictSentimentReask(o) ==
    IF o.validation_passed /\ o.has_output THEN Returns("passed")
    ELSE IF ~o.validation_passed /\ o.has_reask
    THEN Raises("reask", "ValueError",
                <<"Validacao Guardrails falhou, 'reask' sugerido. Erro: ", o.error, ".">>)
    ELSE IF ~o.validation_passed
    THEN Raises("failed", "ValueError",
                <<"Guardrails falhou na validacao/extracao. Erro: ", o.error>>)
    ELSE Raises("no_data", "ValueError",
                <<"Guardrails retornou sucesso mas sem dados validados.">>)

\* variant: the test for a failure comes before the test for a reask
VerdictJailbreakFailFirst(o) ==
    IF o.validation_passed /\ o.has_output THEN Returns("passed")
    ELSE IF ~o.validation_passed
    THEN Raises("failed", "ValueError",
                <<"Guardrails falhou na validacao (Jailbreak Detectado). Erro: ", o.error>>)
    ELSE IF ~o.validation_passed /\ o.has_reask
    THEN Raises("reask", "ValueError",
                <<"Validacao Guardrails falhou (Jailbreak Detectado), 'reask' sugerido. Erro: ",
                  o.error, ".">>)
    ELSE Raises("no_data", "ValueError",
                <<"Guardrails retornou sucesso mas sem dados validados.">>)

\* crew_nv3/with-hub.py: validate_jailbreak_attempt
VerdictJailbreak(o) ==
    IF o.validation_passed /\ o.has_output THEN Returns("passed")
    ELSE IF ~o.validation_passed /\ o.has_reask
    THEN Raises("reask", "ValueError",
                <<"Validacao Guardrails falhou (Jailbreak Detectado), 'reask' sugerido. Erro: ",
                  o.error, ".">>)
    ELSE IF ~o.validation_passed
    THEN Raises("failed", "ValueError",
                <<"Guardrails falhou na validacao (Jailbreak Detectado). Erro: ", o.error>>)
    ELSE Raises("no_data", "ValueError",
                <<"Guardrails retornou sucesso mas sem dados validados.">>)

\* crew_nv2/with-hub.py: validate_sentiment_analysis
VerdictSentiment(o) ==
    IF o.validation_passed /\ o.has_output THEN Returns("passed")
    ELSE IF ~o.has_output /\ ~o.has_reask
    THEN Raises("failed", "ValueError",
                <<"Guardrails nao conseguiu extrair/validar os dados da saida bruta. Erro: ",
                  o.error>>)
    ELSE Raises("failed_else", "ValueError", <<"Validacao falhou: ", o.error>>)

\* variant: success without validated data is let through
VerdictExtractedNoDataOk(o) ==
    IF o.validation_passed /\ o.has_output THEN Returns("passed")
    ELSE IF ~o.validation_passed
    THEN Raises("failed", "GuardrailsValidationError",
                <<"Validacao Pydantic falhou: ", o.error>>)
    ELSE Returns("no_data")

\* crew_nv5/main.py: validate_extracted_data
VerdictExtracted(o) ==
    IF o.validation_passed /\ o.has_output THEN Returns("passed")
    ELSE IF ~o.validation_passed
    THEN Raises("failed", "GuardrailsValidationError",
                <<"Validacao Pydantic falhou: ", o.error>>)
    ELSE Raises("no_data", "ValueError",
                <<"Guardrails retornou sucesso mas sem dados validados.">>)

\* crew_nv4/main.py: validate_report_contains_footer; the if has no else
VerdictFooter(o) ==
    IF o.validation_passed THEN Returns("passed")
    ELSE Returns("fell_through")

CallbackVerdict(cb, o) ==
    CASE cb = "validate_sentiment_analysis_with_reask" -> VerdictSentimentReask(o)
      [] cb = "validate_jailbreak_attempt"             -> VerdictJailbreak(o)
      [] cb = "validate_sentiment_analysis"            -> VerdictSentiment(o)
      [] cb = "validate_extracted_data"                -> VerdictExtracted(o)
      [] cb = "validate_report_contains_footer"        -> VerdictFooter(o)

-----------------------------------------------------------------------------
(* The pipeline: crew.kickoff(), the task callbacks and __main__ *)

\* the call harness is not in use
NoCall == [code |-> "none"]

\* task.output is None until the task has run
NoOutput == <<"<None>">>

TaskIds == 1 .. NumTasks(script)

Init ==
    /\ script \in Scripts
    /\ pc = "start"
    /\ cur = 0
    /\ status = [i \in 1 .. NumTasks(script) |-> "idle"]
    /\ raw = [i \in 1 .. NumTasks(script) |-> NoOutput]
    /\ genCalls = [i \in 1 .. NumTasks(script) |-> 0]
    /\ guardBuilt = [i \in 1 .. NumTasks(script) |-> 0]
    /\ valCalls = [i \in 1 .. NumTasks(script) |-> 0]
    /\ branch = [i \in 1 .. NumTasks(script) |-> "none"]
    /\ hints = [i \in 1 .. NumTasks(script) |-> <<>>]
    /\ outcome = NoOutcome
    /\ exc = NoExc
    /\ printed = {}
    /\ exitStatus = -1
    /\ vpc = "off"
    /\ vValue = NoneValue
    /\ vN = 0
    /\ vResult = NoResult
    /\ hpc = "off"
    /\ hIn = NoCall
    /\ hOut = NoCall

\* result = crew.kickoff(inputs=inputs): the crew starts with its first task
Kickoff ==
    /\ pc = "start"
    /\ pc' = "task"
    /\ cur' = 1
    /\ printed' = printed \cup {"banner"}
    /\ UNCHANGED <<script, status, raw, genCalls, guardBuilt, valCalls, branch,
                   hints, outcome, exc, exitStatus, valVars>>

\* variant: the crew runs a finished task a second time
AfterTaskRerun(i) ==
    IF genCalls[i] < 2
    THEN pc' = "task" /\ cur' = i
    ELSE IF i < NumTasks(script)
    THEN pc' = "task" /\ cur' = i + 1
    ELSE pc' = "crew_done" /\ cur' = cur

\* variant: the crew steps over the task that follows
AfterTaskSkip(i) ==
    IF i + 1 < NumTasks(script)
    THEN pc' = "task" /\ cur' = i + 2
    ELSE pc' = "crew_done" /\ cur' = cur

\* Process.sequential / Process.hierarchical: after task i the crew runs task
\* i + 1, and kickoff returns after the last one
AfterTask(i) ==
    IF i < NumTasks(script)
    THEN pc' = "task" /\ cur' = i + 1
    ELSE pc' = "crew_done" /\ cur' = cur

\* the crew runs the current task: one generation, which answers with a text
\* or fails; a task with a callback hands its output to the callback
RunTask ==
    /\ pc = "task"
    /\ genCalls' = [genCalls EXCEPT ![cur] = @ + 1]
    /\ \/ /\ status' = [status EXCEPT ![cur] = "failed"]
          /\ exc' = Exc("ModelInvocationError", <<>>)
          /\ pc' = "crew_raised"
          /\ UNCHANGED <<raw, cur>>
       \/ \E r \in RawOutputs(script, cur) :
          /\ raw' = [raw EXCEPT ![cur] = r]
          /\ exc' = exc
          /\ IF Callback(script, cur) # "none"
             THEN /\ status' = [status EXCEPT ![cur] = "generated"]
                  /\ pc' = "callback"
                  /\ cur' = cur
             ELSE /\ status' = [status EXCEPT ![cur] =
                                  IF ValidatedInMain(script, cur) THEN "generated"
                                  ELSE "returned"]
                  /\ AfterTask(cur)
    /\ UNCHANGED <<script, guardBuilt, valCalls, branch, hints, outcome,
                   printed, exitStatus, valVars>>

\* variant: the callback puts the text it has normalised in output.raw
CallbackReturnsNormalised(i, b) ==
    /\ status' = [status EXCEPT ![i] = "returned"]
    /\ branch' = [branch EXCEPT ![i] = b]
    /\ raw' = [raw EXCEPT ![i] = JsonOutputStr(@)]
    /\ AfterTask(i)
    /\ UNCHANGED <<genCalls, hints, exc>>

\* "return" of a callback: the task is done and the crew goes on
CallbackReturns(i, b) ==
    /\ status' = [status EXCEPT ![i] = "returned"]
    /\ branch' = [branch EXCEPT ![i] = b]
    /\ AfterTask(i)
    /\ UNCHANGED <<raw, genCalls, hints, exc>>

\* variant: a suggested reask is carried out, once: the hint is appended to
\* the prompt and the task is generated again
CallbackRaisesWithReask(i, b, e) ==
    IF b = "reask" /\ genCalls[i] < 2
    THEN /\ status' = [status EXCEPT ![i] = "idle"]
         /\ branch' = [branch EXCEPT ![i] = b]
         /\ hints' = [hints EXCEPT ![i] = Append(@, e.msg)]
         /\ pc' = "task"
         /\ UNCHANGED <<raw, genCalls, exc, cur>>
    ELSE /\ status' = [status EXCEPT ![i] = "raised"]
         /\ branch' = [branch EXCEPT ![i] = b]
         /\ exc' = e
         /\ pc' = "crew_raised"
         /\ UNCHANGED <<raw, genCalls, hints, cur>>

\* variant: a failed extraction is asked again, once, with the reason as hint
CallbackRaisesParseReask(i, b, e) ==
    IF b \in {"not_json", "failed"} /\ genCalls[i] < 2
    THEN /\ status' = [status EXCEPT ![i] = "idle"]
         /\ branch' = [branch EXCEPT ![i] = b]
         /\ hints' = [hints EXCEPT ![i] = Append(@, e.msg)]
         /\ pc' = "task"
         /\ UNCHANGED <<raw, genCalls, exc, cur>>
    ELSE /\ status' = [status EXCEPT ![i] = "raised"]
         /\ branch' = [branch EXCEPT ![i] = b]
         /\ exc' = e
         /\ pc' = "crew_raised"
         /\ UNCHANGED <<raw, genCalls, hints, cur>>

\* variant: the exception of the callback is logged and the crew goes on
CallbackRaisesSwallowed(i, b, e) ==
    /\ status' = [status EXCEPT ![i] = "raised"]
    /\ branch' = [branch EXCEPT ![i] = b]
    /\ exc' = e
    /\ AfterTask(i)
    /\ UNCHANGED <<raw, genCalls, hints>>

\* "raise" in a callback: the exception leaves the callback, the task and
\* crew.kickoff(); no other task runs
CallbackRaises(i, b, e) ==
    /\ status' = [status EXCEPT ![i] = "raised"]
    /\ branch' = [branch EXCEPT ![i] = b]
    /\ exc' = e
    /\ pc' = "crew_raised"
    /\ UNCHANGED <<raw, genCalls, hints, cur>>

\* variant: a Guard that cannot be built is reported and the callback returns
CallbackEvaluateInitErrorIgnored ==
    /\ pc = "callback"
    /\ LET cb == Callback(script, cur)
           r  == raw[cur]
       IN  IF IsEmpty(r)
           THEN /\ CallbackReturns(cur, "empty")
                /\ UNCHANGED <<guardBuilt, valCalls, outcome>>
           ELSE IF cb = "validate_extracted_data"
                   /\ ~LooksLikeJsonObject(JsonOutputStr(r))
           THEN /\ CallbackRaises(cur, "not_json",
                       Exc("ValueError",
                           <<"A saida da tarefa de estruturacao nao e um objeto JSON.">>))
                /\ UNCHANGED <<guardBuilt, valCalls, outcome>>
           ELSE \/ /\ CallbackReturns(cur, "guard_init_error")
                   /\ UNCHANGED <<guardBuilt, valCalls, outcome>>
                \/ /\ guardBuilt' = [guardBuilt EXCEPT ![cur] = @ + 1]
                   /\ valCalls' = [valCalls EXCEPT ![cur] = @ + 1]
                   /\ \/ \E t \in {"ValidationError", "Exception"} :
                            /\ CallbackRaises(cur, "guard_raised", Exc(t, <<"guard">>))
                            /\ outcome' = outcome
                      \/ \E o \in Outcomes :
                            /\ outcome' = o
                            /\ status' = [status EXCEPT ![cur] = "evaluated"]
                            /\ pc' = "branch"
                            /\ UNCHANGED <<raw, genCalls, hints, exc, cur, branch>>
    /\ UNCHANGED <<script, printed, exitStatus, valVars>>

\* a callback from its entry to the ValidationOutcome: the empty-output
\* return, the JSON shape check of nv5, the construction of the Guard, and
\* guard.validate() / guard.parse()
CallbackEvaluate ==
    /\ pc = "callback"
    /\ LET cb == Callback(script, cur)
           r  == raw[cur]
       IN  IF IsEmpty(r)
           THEN /\ CallbackReturns(cur, "empty")
                /\ UNCHANGED <<guardBuilt, valCalls, outcome>>
           ELSE IF cb = "validate_extracted_data"
                   /\ ~LooksLikeJsonObject(JsonOutputStr(r))
           THEN /\ CallbackRaises(cur, "not_json",
                       Exc("ValueError",
                           <<"A saida da tarefa de estruturacao nao e um objeto JSON.">>))
                /\ UNCHANGED <<guardBuilt, valCalls, outcome>>
           ELSE \/ /\ CallbackRaises(cur, "guard_init_error",
                          Exc("Exception", <<"guard init">>))
                   /\ UNCHANGED <<guardBuilt, valCalls, outcome>>
                \/ /\ guardBuilt' = [guardBuilt EXCEPT ![cur] = @ + 1]
                   /\ valCalls' = [valCalls EXCEPT ![cur] = @ + 1]
                   /\ \/ \E t \in {"ValidationError", "Exception"} :
                            /\ CallbackRaises(cur, "guard_raised", Exc(t, <<"guard">>))
                            /\ outcome' = outcome
                      \/ \E o \in Outcomes :
                            /\ outcome' = o
                            /\ status' = [status EXCEPT ![cur] = "evaluated"]
                            /\ pc' = "branch"
                            /\ UNCHANGED <<raw, genCalls, hints, exc, cur, branch>>
    /\ UNCHANGED <<script, printed, exitStatus, valVars>>

\* the if/elif chain of the callback on the ValidationOutcome
CallbackBranch ==
    /\ pc = "branch"
    /\ LET v == CallbackVerdict(Callback(script, cur), outcome)
       IN  IF v.returns
           THEN CallbackReturns(cur, v.branch)
           ELSE CallbackRaises(cur, v.branch, v.exc)
    /\ UNCHANGED <<script, guardBuilt, valCalls, outcome, printed, exitStatus,
                   valVars>>

\* __main__ after kickoff has returned: the nv1 scripts go on to validate
\* result.raw, the others print the final output and end
MainAfterKickoff ==
    /\ pc = "crew_done"
    /\ IF script \in {"nv1_main", "nv1_hub"}
       THEN /\ printed' = printed \cup {"raw_output"}
            /\ pc' = "validate"
            /\ exitStatus' = exitStatus
       ELSE /\ printed' = printed \cup {"final_output"}
            /\ pc' = "exit"
            /\ exitStatus' = 0
    /\ UNCHANGED <<script, cur, status, raw, genCalls, guardBuilt, valCalls,
                   branch, hints, outcome, exc, valVars>>

\* variant: the except clause prints the error and the script goes on
MainExceptGoesOn ==
    /\ pc = "crew_raised"
    /\ printed' = printed \cup {"diagnostic"}
    /\ IF script \in {"nv1_main", "nv1_hub"}
       THEN pc' = "validate" /\ exitStatus' = exitStatus
       ELSE pc' = "exit" /\ exitStatus' = 0
    /\ UNCHANGED <<script, cur, status, raw, genCalls, guardBuilt, valCalls,
                   branch, hints, outcome, exc, valVars>>

\* __main__: except Exception around kickoff: print the error, sys.exit(1)
MainExcept ==
    /\ pc = "crew_raised"
    /\ printed' = printed \cup {"diagnostic"}
    /\ exitStatus' = 1
    /\ pc' = "exit"
    /\ UNCHANGED <<script, cur, status, raw, genCalls, guardBuilt, valCalls,
                   branch, hints, outcome, exc, valVars>>

\* __main__ of the nv1 scripts: build the Guard and validate result.raw;
\* a failure is printed and the script ends without sys.exit
PostValidate ==
    /\ pc = "validate"
    /\ LET i == NumTasks(script)
           passed == /\ status' = [status EXCEPT ![i] = "returned"]
                     /\ branch' = [branch EXCEPT ![i] = "passed"]
                     /\ printed' = printed \cup {"final_output"}
                     /\ exc' = exc
           failed(msg) ==
                     /\ status' = [status EXCEPT ![i] = "raised"]
                     /\ branch' = [branch EXCEPT ![i] = "failed"]
                     /\ printed' = printed \cup {"validation_failure"}
                     /\ exc' = Exc("ValidationError", msg)
       IN  /\ guardBuilt' = [guardBuilt EXCEPT ![i] = @ + 1]
           /\ IF script = "nv1_main"
              THEN LET res == HasExactlyNSentences_validate(StrValue(raw[i]),
                                                            num_sentences)
                   IN  /\ valCalls' = [valCalls EXCEPT ![i] = @ + 1]
                       /\ IF res.outcome = "pass" THEN passed
                          ELSE failed(res.error_message)
              ELSE IF ~IsEmpty(raw[i])
              THEN /\ valCalls' = [valCalls EXCEPT ![i] = @ + 1]
                   /\ \/ passed
                      \/ failed(<<"regex">>)
              ELSE /\ valCalls' = valCalls
                   /\ status' = [status EXCEPT ![i] = "returned"]
                   /\ branch' = [branch EXCEPT ![i] = "empty"]
                   /\ printed' = printed \cup {"validation_skipped"}
                   /\ exc' = exc
    /\ pc' = "exit"
    /\ exitStatus' = 0
    /\ UNCHANGED <<script, cur, raw, genCalls, hints, outcome, valVars>>

Next ==
    \/ Kickoff
    \/ RunTask
    \/ CallbackEvaluate
    \/ CallbackBranch
    \/ MainAfterKickoff
    \/ MainExcept
    \/ PostValidate

Spec == Init /\ [][Next]_vars

-----------------------------------------------------------------------------
(* The validator harness: one call of HasExactlyNSentences(n).validate(v) *)

InitValidator ==
    /\ script = "nv1_main"
    /\ pc = "harness"
    /\ cur = 0
    /\ status = [i \in 1 .. NumTasks(script) |-> "idle"]
    /\ raw = [i \in 1 .. NumTasks(script) |-> NoOutput]
    /\ genCalls = [i \in 1 .. NumTasks(script) |-> 0]
    /\ guardBuilt = [i \in 1 .. NumTasks(script) |-> 0]
    /\ valCalls = [i \in 1 .. NumTasks(script) |-> 0]
    /\ branch = [i \in 1 .. NumTasks(script) |-> "none"]
    /\ hints = [i \in 1 .. NumTasks(script) |-> <<>>]
    /\ outcome = NoOutcome
    /\ exc = NoExc
    /\ printed = {}
    /\ exitStatus = -1
    /\ vpc = "ready"
    /\ vValue \in HarnessValues
    /\ vN \in 0 .. MaxN
    /\ vResult = NoResult
    /\ hpc = "off"
    /\ hIn = NoCall
    /\ hOut = NoCall

\* variant: validate keeps the count it found in self._n
ValidateCallKeepsCount ==
    /\ vpc = "ready"
    /\ vResult' = HasExactlyNSentences_validate(vValue, vN)
    /\ vN' = IF IsInstanceStr(vValue) THEN Len(Sentences(vValue.chars)) ELSE vN
    /\ vpc' = "done"
    /\ UNCHANGED <<vValue, pipeVars, callVars>>

\* validator.validate(value, metadata) on the validator built with n: it
\* reads value and self._n and assigns neither
ValidateCall ==
    /\ vpc = "ready"
    /\ vResult' = HasExactlyNSentences_validate(vValue, vN)
    /\ vpc' = "done"
    /\ UNCHANGED <<vValue, vN, pipeVars, callVars>>

\* the same validator is given the same value a second time
ValidateAgain ==
    /\ vpc = "done"
    /\ vResult' = HasExactlyNSentences_validate(vValue, vN)
    /\ vpc' = "again"
    /\ UNCHANGED <<vValue, vN, pipeVars, callVars>>

NextValidator ==
    \/ ValidateCall
    \/ ValidateAgain

SpecValidator == InitValidator /\ [][NextValidator]_vars

-----------------------------------------------------------------------------
(* The states of a step, read off the position of the crew and the callback:
   Pending while its generation is running, Evaluating from the raw output
   to the verdict, NeedsReask when the ValidationOutcome in hand failed and
   carries a reask, Accepted once the validation code returned (or the task
   has none), Terminal once it raised, Aborted when the model call failed. *)

StepState(i) ==
    CASE status[i] = "idle" ->
            IF pc = "task" /\ cur = i THEN "Pending" ELSE "NotStarted"
      [] status[i] = "generated" -> "Evaluating"
      [] status[i] = "evaluated" ->
            IF ~outcome.validation_passed /\ outcome.has_reask
            THEN "NeedsReask" ELSE "Evaluating"
      [] status[i] = "returned" -> "Accepted"
      [] status[i] = "raised" -> "Terminal"
      [] status[i] = "failed" -> "Aborted"

ReaskScripts == {"nv3_main", "nv3_hub"}

TypeOK ==
    /\ script \in Scripts
    /\ pc \in {"start", "task", "callback", "branch", "crew_done", "crew_raised",
               "validate", "exit", "harness"}
    /\ cur \in 0 .. NumTasks(script)
    /\ \A i \in TaskIds :
          /\ status[i] \in {"idle", "generated", "evaluated", "returned",
                            "raised", "failed"}
          /\ genCalls[i] \in Nat /\ guardBuilt[i] \in Nat /\ valCalls[i] \in Nat
    /\ exitStatus \in {-1, 0, 1}

-----------------------------------------------------------------------------
(* Reask orchestration *)

\* C1 as stated: a step whose validation failed with a reask suggestion has
\* made exactly 2 generation attempts when the script ends.
C1_TwoAttemptsThenTerminal ==
    \A i \in TaskIds :
        (script \in ReaskScripts /\ pc = "exit" /\ branch[i] = "reask") =>
            genCalls[i] = 2

\* C1 as the code has it: no step is ever generated more than once, and a
\* step whose validation failed with a reask suggestion is Terminal after its
\* single generation attempt, with the crew interrupted.
C1_OneAttemptThenTerminal ==
    \A i \in TaskIds :
        /\ genCalls[i] <= 1
        /\ branch[i] = "reask" =>
              /\ genCalls[i] = 1
              /\ StepState(i) = "Terminal"
              /\ pc \in {"crew_raised", "exit"}
              /\ pc = "exit" => exitStatus = 1

C1_Witness ==
    /\ script = "nv3_main"
    /\ pc = "exit"
    /\ branch[1] = "reask"
    /\ genCalls[1] = 1
    /\ genCalls[2] = 0
    /\ exitStatus = 1

\* C2 as stated: from NeedsReask with the one extra attempt still unused, the
\* step goes back to Pending and its prompt is extended with the hint of the
\* failed outcome.
C2_ReaskGoesBackToPending ==
    [][\A i \in TaskIds :
          (script \in ReaskScripts /\ StepState(i) = "NeedsReask"
           /\ genCalls[i] - 1 < 1) =>
              /\ StepState(i)' = "Pending"
              /\ Len(hints'[i]) = Len(hints[i]) + 1]_vars

\* C2 as the code has it: in the reask examples, every step out of NeedsReask
\* goes to Terminal, the exception raised carries the error of the failed
\* outcome, no generation is made and no prompt is extended.
C2_ReaskGoesToTerminal ==
    [][\A i \in TaskIds :
          (script \in ReaskScripts /\ StepState(i) = "NeedsReask") =>
              /\ StepState(i)' = "Terminal"
              /\ exc'.type = "ValueError"
              /\ \E k \in 1 .. Len(exc'.msg) : exc'.msg[k] = outcome.error
              /\ genCalls' = genCalls
              /\ hints' = hints
              /\ pc' = "crew_raised"]_vars

C2_Witness ==
    /\ script = "nv3_main"
    /\ branch[1] = "reask"
    /\ status[1] = "raised"
    /\ outcome.error = "E2"
    /\ exc.msg[2] = "E2"
    /\ hints[1] = <<>>

\* C3: once a step is Accepted or Terminal, no step of the run changes its
\* state, generates for it or validates it again.
C3_AcceptedTerminalAbsorbing ==
    [][\A i \in TaskIds :
          StepState(i) \in {"Accepted", "Terminal"} =>
              /\ StepState(i)' = StepState(i)
              /\ genCalls'[i] = genCalls[i]
              /\ valCalls'[i] = valCalls[i]
              /\ guardBuilt'[i] = guardBuilt[i]
              /\ raw'[i] = raw[i]]_vars

C3_Witness ==
    /\ script = "nv2_hub"
    /\ pc = "exit"
    /\ StepState(1) = "Accepted"
    /\ StepState(2) = "Accepted"
    /\ valCalls[1] = 1
    /\ genCalls[1] = 1

\* C4: once a step is Terminal, no generation is made, the recorded outputs
\* and the accepted steps stay as they are, and the only step left is the
\* one that ends the script.
C4_TerminalHaltsRun ==
    [][(\E i \in TaskIds : StepState(i) = "Terminal") =>
          /\ genCalls' = genCalls
          /\ raw' = raw
          /\ \A j \in TaskIds : status[j] = "returned" => status'[j] = "returned"
          /\ pc' = "exit"]_vars

C4_Witness ==
    /\ script = "nv2_hub"
    /\ pc = "exit"
    /\ StepState(1) = "Terminal"
    /\ StepState(2) = "NotStarted"
    /\ genCalls[2] = 0
    /\ raw[1] = WordText

\* C5: a step is being generated, or has been, only if the step before it
\* is Accepted.
C5_StrictlySequential ==
    \A i \in TaskIds :
        (i > 1 /\ (genCalls[i] > 0 \/ (pc = "task" /\ cur = i))) =>
            StepState(i - 1) = "Accepted"

C5_Witness ==
    /\ script = "nv4_main"
    /\ pc = "task"
    /\ cur = 3
    /\ StepState(3) = "Pending"
    /\ StepState(2) = "Accepted"
    /\ StepState(1) = "Accepted"

-----------------------------------------------------------------------------
(* Evaluation of one step *)

\* C6: a step whose raw output is empty ends Accepted without any call of
\* guard.validate() / guard.parse() for it, in every script.
C6_EmptyOutputShortCircuit ==
    \A i \in TaskIds :
        (pc = "exit" /\ IsEmpty(raw[i])) =>
            /\ valCalls[i] = 0
            /\ StepState(i) = "Accepted"

\* C7: the checks of a step run in order and stop at the first failure: a
\* Guard is built and called at most once per step, and in the extraction
\* example an output that is not of the shape of a JSON object is rejected
\* with no Guard built and no parse call made.
C7_FirstFailureWins ==
    \A i \in TaskIds :
        /\ guardBuilt[i] <= 1
        /\ valCalls[i] <= guardBuilt[i]
        /\ (script = "nv5_main" /\ i = 2
            /\ raw[i] \in {WordText, JsonWord, ArrayText}) =>
              /\ guardBuilt[i] = 0
              /\ valCalls[i] = 0
              /\ status[i] \in {"generated", "raised"}
              /\ status[i] = "raised" => branch[i] = "not_json"

C7_Witness ==
    /\ script = "nv5_main"
    /\ pc = "exit"
    /\ raw[2] = JsonWord
    /\ branch[2] = "not_json"
    /\ StepState(2) = "Terminal"
    /\ guardBuilt[2] = 0
    /\ valCalls[2] = 0

-----------------------------------------------------------------------------
(* The sentence-count validator *)

\* the number of fragments that are left when a text is cut at every '.',
\* '!' and '?' and the fragments without a non-blank character are dropped:
\* the positions of the first non-blank character of each fragment
FragmentStarts(t) ==
    LET cut(c)  == c \in {".", "!", "?"}
        ink(c)  == ~cut(c) /\ c \notin {" ", "\n", "\t", "\r"}
    IN  {i \in 1 .. Len(t) :
            /\ ink(t[i])
            /\ \A j \in 1 .. i - 1 :
                  ink(t[j]) => \E k \in j + 1 .. i - 1 : cut(t[k])}

\* C8: for a text and an n, validate() passes iff cutting the text at '.',
\* '!' and '?' and dropping the blank fragments leaves exactly n fragments.
C8_PassesIffNFragments ==
    (vpc = "done" /\ vValue.type = "str") =>
        (vResult.outcome = "pass" <=> Cardinality(FragmentStarts(vValue.chars)) = vN)

C8_Witness ==
    /\ vpc = "done"
    /\ vValue = StrValue(ExampleText)
    /\ vN = 3
    /\ vResult.outcome = "pass"

\* C9: a failure on a text carries the message "Esperava n frases, mas
\* encontrou count." with the n expected and the count found; for
\* "A. B! C?" and n = 2 the count is 3.
C9_FailureReportsCount ==
    /\ (vpc = "done" /\ vValue.type = "str" /\ vResult.outcome # "pass") =>
          /\ vResult.outcome = "fail"
          /\ vResult.error_message =
                <<"Esperava ", vN, " frases, mas encontrou ",
                  Cardinality(FragmentStarts(vValue.chars)), ".">>
    /\ (vpc = "done" /\ vValue = StrValue(ExampleText) /\ vN = 2) =>
          /\ vResult.outcome = "fail"
          /\ vResult.error_message[4] = 3

C9_Witness ==
    /\ vpc = "done"
    /\ vValue = StrValue(ExampleText)
    /\ vN = 2
    /\ vResult = FailResult(<<"Esperava ", 2, " frases, mas encontrou ", 3, ".">>)

\* C10 as stated: a value that is not a str is never answered with a failed
\* validation result.
C10_NonTextIsNotAFailResult ==
    (vpc = "done" /\ vValue.type # "str") => vResult.outcome # "fail"

\* C10 as the code has it: a value that is not a str is answered with the
\* failed validation result "Input should be a string.", and validate()
\* raises nothing.
C10_NonTextIsAFailResult ==
    (vpc = "done" /\ vValue.type # "str") =>
        vResult = FailResult(<<"Input should be a string.">>)

C10_Witness ==
    /\ vpc = "done"
    /\ vValue = IntValue
    /\ vResult.outcome = "fail"
    /\ vResult.error_message = <<"Input should be a string.">>

-----------------------------------------------------------------------------
(* crew_nv1/with-hub.py: RegexMatch on result.raw *)

\* the letters of the word, upper case first; "a^" stands for a with a
\* circumflex
CasePairs == {<<"Q", "q">>, <<"U", "u">>, <<"A^", "a^">>, <<"N", "n">>,
              <<"T", "t">>, <<"I", "i">>, <<"C", "c">>, <<"A", "a">>}

\* variant: the pattern without the (?i) flag
validation_regex_case_sensitive ==
    [ignorecase |-> FALSE, literal |-> <<"q", "u", "a^", "n", "t", "i", "c", "a">>]

\* validation_regex = r"(?i)quantica" (with a circumflex on the first a): a
\* literal word under the IGNORECASE flag
validation_regex ==
    [ignorecase |-> TRUE, literal |-> <<"q", "u", "a^", "n", "t", "i", "c", "a">>]

\* RegexMatch(..., match_type="search", ...)
match_type == "search"

\* str.lower() of one character
PyLower(c) ==
    IF \E pr \in CasePairs : pr[1] = c
    THEN (CHOOSE pr \in CasePairs : pr[1] = c)[2]
    ELSE c

\* the pattern matches the text from position k on
MatchesAt(p, t, k) ==
    /\ k >= 1
    /\ k + Len(p.literal) - 1 <= Len(t)
    /\ \A j \in 1 .. Len(p.literal) :
          IF p.ignorecase
          THEN PyLower(p.literal[j]) = PyLower(t[k + j - 1])
          ELSE p.literal[j] = t[k + j - 1]

\* getattr(re.compile(regex), match_type)(value) is not None
ReApply(p, mt, t) ==
    CASE mt = "search"    -> \E k \in 1 .. Len(t) : MatchesAt(p, t, k)
      [] mt = "match"     -> MatchesAt(p, t, 1)
      [] mt = "fullmatch" -> MatchesAt(p, t, 1) /\ Len(t) = Len(p.literal)

\* RegexMatch.validate with on_fail="exception": the result, or the
\* exception guard.validate() raises for a failure
RegexMatch_validate(p, mt, value) ==
    IF ReApply(p, mt, value) THEN PassResult
    ELSE Raised("ValidationError")

\* __main__ of crew_nv1/with-hub.py from "if crew_raw_output:" on
Nv1HubValidation(p, crew_raw_output) ==
    IF ~IsEmpty(crew_raw_output)
    THEN IF RegexMatch_validate(p, match_type, crew_raw_output).outcome = "pass"
         THEN [code |-> "regex", result |-> "validated", valCalls |-> 1]
         ELSE [code |-> "regex", result |-> "failed", valCalls |-> 1]
    ELSE [code |-> "regex", result |-> "skipped", valCalls |-> 0]

\* every way to write the word in upper and lower case
WordCasings ==
    LET w == validation_regex_case_sensitive.literal
        up(c) == (CHOOSE pr \in CasePairs : pr[2] = c)[1]
    IN  {[j \in 1 .. Len(w) |-> IF j \in U THEN up(w[j]) ELSE w[j]] :
            U \in SUBSET (1 .. Len(w))}

\* the word with one letter missing, and the word without its circumflex
WordNearMisses ==
    LET w == validation_regex_case_sensitive.literal
    IN  {SubSeq(w, 1, j - 1) \o SubSeq(w, j + 1, Len(w)) : j \in 1 .. Len(w)}
        \cup {<<"q", "u", "a", "n", "t", "i", "c", "a">>}

Padding == SeqsUpTo({"A", " "}, MaxPad)

RegexTexts ==
    {pre \o mid \o suf :
        pre \in Padding, suf \in Padding,
        mid \in WordCasings \cup WordNearMisses \cup {<<>>}}

RegexPatterns ==
    {validation_regex,
     [ignorecase |-> FALSE, literal |-> <<"q", "u", "a^", "n", "t", "i", "c", "a">>],
     [ignorecase |-> TRUE, literal |-> <<"a">>],
     [ignorecase |-> FALSE, literal |-> <<"A">>]}

\* every variable of the pipeline and of the validator harness at rest
HarnessIdle ==
    /\ script = "nv1_main"
    /\ pc = "harness"
    /\ cur = 0
    /\ status = [i \in 1 .. NumTasks(script) |-> "idle"]
    /\ raw = [i \in 1 .. NumTasks(script) |-> NoOutput]
    /\ genCalls = [i \in 1 .. NumTasks(script) |-> 0]
    /\ guardBuilt = [i \in 1 .. NumTasks(script) |-> 0]
    /\ valCalls = [i \in 1 .. NumTasks(script) |-> 0]
    /\ branch = [i \in 1 .. NumTasks(script) |-> "none"]
    /\ hints = [i \in 1 .. NumTasks(script) |-> <<>>]
    /\ outcome = NoOutcome
    /\ exc = NoExc
    /\ printed = {}
    /\ exitStatus = -1
    /\ vpc = "off"
    /\ vValue = NoneValue
    /\ vN = 0
    /\ vResult = NoResult

InitRegex ==
    /\ HarnessIdle
    /\ hpc = "ready"
    /\ hIn \in {[code |-> "regex", pattern |-> p, text |-> t] :
                    p \in RegexPatterns, t \in RegexTexts}
    /\ hOut = NoCall

RegexCall ==
    /\ hpc = "ready"
    /\ hIn.code = "regex"
    /\ hOut' = Nv1HubValidation(hIn.pattern, hIn.text)
    /\ hpc' = "done"
    /\ UNCHANGED <<hIn, pipeVars, vpc, vValue, vN, vResult>>

NextRegex == RegexCall

SpecRegex == InitRegex /\ [][NextRegex]_vars

\* the same letter, or the same letter in the other case when case is ignored
SameLetter(ic, x, y) ==
    \/ x = y
    \/ ic /\ (<<x, y>> \in CasePairs \/ <<y, x>> \in CasePairs)

\* a stretch of the text spells the literal
FoundSomewhere(p, t) ==
    \E a \in 1 .. Len(t) : \E b \in a .. Len(t) :
        /\ b - a + 1 = Len(p.literal)
        /\ \A j \in 1 .. Len(p.literal) :
              SameLetter(p.ignorecase, p.literal[j], t[a + j - 1])

\* the text holds the word, each letter in either case
HoldsTheWord(t) ==
    LET letters == <<{"q", "Q"}, {"u", "U"}, {"a^", "A^"}, {"n", "N"},
                     {"t", "T"}, {"i", "I"}, {"c", "C"}, {"a", "A"}>>
    IN  \E a \in 1 .. Len(t) :
           /\ a + 7 <= Len(t)
           /\ \A j \in 1 .. 8 : t[a + j - 1] \in letters[j]

\* C11: the regex validation of a non-empty text passes iff the pattern
\* matches somewhere in the text, without regard to case when the pattern
\* says so; with the pattern of the example, iff the text holds the word in
\* any letter case; an empty text is not validated at all.
C11_RegexSearch ==
    (hpc = "done" /\ hIn.code = "regex") =>
        /\ hOut.result = "skipped" <=> hIn.text = <<>>
        /\ hIn.text # <<>> =>
              (hOut.result = "validated" <=> FoundSomewhere(hIn.pattern, hIn.text))
        /\ (hIn.text # <<>> /\ hIn.pattern = validation_regex) =>
              (hOut.result = "validated" <=> HoldsTheWord(hIn.text))

C11_Witness ==
    /\ hpc = "done"
    /\ hIn.code = "regex"
    /\ hIn.pattern = validation_regex
    /\ hIn.text = <<"A", "Q", "u", "A^", "n", "T", "i", "c", "a", " ">>
    /\ hOut.result = "validated"

-----------------------------------------------------------------------------
(* JSON texts and the pydantic models of the scripts.  A JSON text is a
   sequence of symbols: the punctuation, the white space and the fence
   characters one by one, every string literal, number and null as one
   symbol.  A decoded object is a function from key symbols to value
   symbols. *)

StringTokens == {"\"sentiment\"", "\"summary\"", "\"confidence_score\"",
                 "\"title\"", "\"positivo\"", "\"negativo\"", "\"neutro\"",
                 "\"misto\"", "\"Positivo\"", "\"t\"", "\"u\""}

NumberTokens == {"0.9", "7"}

ValueTokens == StringTokens \cup NumberTokens \cup {"null"}

EmptyObj == [k \in {} |-> "null"]

ObjPut(obj, k, v) == [x \in DOMAIN obj \cup {k} |-> IF x = k THEN v ELSE obj[x]]

DecodeError == [ok |-> FALSE, obj |-> EmptyObj]

\* the members of an object, after the opening brace: key : value, then a
\* comma and more members, or the end; a repeated key keeps its last value
RECURSIVE DecodeMembers(_, _)
DecodeMembers(rest, acc) ==
    IF Len(rest) < 3 \/ rest[1] \notin StringTokens \/ rest[2] # ":"
       \/ rest[3] \notin ValueTokens
    THEN DecodeError
    ELSE LET acc2 == ObjPut(acc, rest[1], rest[3])
         IN  IF Len(rest) = 3 THEN [ok |-> TRUE, obj |-> acc2]
             ELSE IF rest[4] = "," THEN DecodeMembers(SubSeq(rest, 5, Len(rest)), acc2)
             ELSE DecodeError

NotWhitespace(c) == c \notin Whitespace

\* json.loads of a text, for a text that is to hold one JSON object
JsonDecode(text) ==
    LET t == SelectSeq(text, NotWhitespace)
    IN  IF Len(t) < 2 \/ t[1] # "{" \/ t[Len(t)] # "}" THEN DecodeError
        ELSE IF Len(t) = 2 THEN [ok |-> TRUE, obj |-> EmptyObj]
        ELSE DecodeMembers(SubSeq(t, 2, Len(t) - 1), EmptyObj)

\* json.dumps of an object, its keys in the order of keyOrder
RECURSIVE JsonMembers(_, _)
JsonMembers(obj, keyOrder) ==
    IF keyOrder = <<>> THEN <<>>
    ELSE LET k == Head(keyOrder)
             more == JsonMembers(obj, Tail(keyOrder))
         IN  IF k \notin DOMAIN obj THEN more
             ELSE IF more = <<>> THEN <<k, ":", obj[k]>>
             ELSE <<k, ":", obj[k], ",">> \o more

JsonDumps(obj, keyOrder) == <<"{">> \o JsonMembers(obj, keyOrder) \o <<"}">>

\* variant: ExtractedWebData with an optional summary
ExtractedWebDataLax ==
    [name |-> "ExtractedWebData",
     fields |-> <<"\"title\"", "\"summary\"">>,
     required |-> {"\"title\""},
     type |-> [f \in {"\"title\"", "\"summary\""} |-> "str"],
     bounded |-> {},
     choices |-> [f \in {} |-> <<>>],
     on_fail |-> "noop"]

\* crew_nv5/main.py: class ExtractedWebData(BaseModel)
ExtractedWebData ==
    [name |-> "ExtractedWebData",
     fields |-> <<"\"title\"", "\"summary\"">>,
     required |-> {"\"title\"", "\"summary\""},
     type |-> [f \in {"\"title\"", "\"summary\""} |-> "str"],
     bounded |-> {},
     choices |-> [f \in {} |-> <<>>],
     on_fail |-> "noop"]

SentimentFields == <<"\"sentiment\"", "\"summary\"", "\"confidence_score\"">>

SentimentTypes ==
    [f \in {"\"sentiment\"", "\"summary\"", "\"confidence_score\""} |->
        IF f = "\"confidence_score\"" THEN "float" ELSE "str"]

\* variant: 'misto' is one of the choices
SentimentChoicesWithMisto == <<"\"positivo\"", "\"negativo\"", "\"neutro\"", "\"misto\"">>

\* choices=['positivo', 'negativo', 'neutro']
SentimentChoices == <<"\"positivo\"", "\"negativo\"", "\"neutro\"">>

\* crew_nv2/with-hub.py: class SentimentAnalysis(BaseModel), and
\* guard.use(ValidChoices(..., on_fail="exception"), on="sentiment")
SentimentAnalysisNv2 ==
    [name |-> "SentimentAnalysis",
     fields |-> SentimentFields,
     required |-> {"\"sentiment\"", "\"summary\""},
     type |-> SentimentTypes,
     bounded |-> {},
     choices |-> [f \in {"\"sentiment\""} |-> SentimentChoices],
     on_fail |-> "exception"]

\* crew_nv3/main.py: class SentimentAnalysis(BaseModel), with
\* ValidChoices(..., on_fail="reask") on sentiment and ge=0.0, le=1.0 on
\* confidence_score
SentimentAnalysisNv3 ==
    [name |-> "SentimentAnalysis",
     fields |-> SentimentFields,
     required |-> {"\"sentiment\"", "\"summary\""},
     type |-> SentimentTypes,
     bounded |-> {"\"confidence_score\""},
     choices |-> [f \in {"\"sentiment\""} |-> SentimentChoices],
     on_fail |-> "reask"]

\* a value of the declared type: a str field takes a string, an
\* Optional[float] field a number or null
HasType(v, type) ==
    IF type = "str" THEN v \in StringTokens
    ELSE v \in NumberTokens \cup {"null"}

\* ge=0.0, le=1.0
InUnitRange(v) == v \in {"0.9", "null"}

\* the first field, in the order of declaration, that is missing though
\* required, of the wrong type, or out of its range
FieldProblem(schema, obj, f) ==
    IF f \notin DOMAIN obj
    THEN IF f \in schema.required THEN "missing" ELSE "none"
    ELSE IF ~HasType(obj[f], schema.type[f]) THEN "type"
    ELSE IF f \in schema.bounded /\ ~InUnitRange(obj[f]) THEN "range"
    ELSE "none"

RECURSIVE SchemaCheck(_, _, _)
SchemaCheck(schema, obj, fields) ==
    IF fields = <<>> THEN [ok |-> TRUE, field |-> "none", reason |-> "none"]
    ELSE LET p == FieldProblem(schema, obj, Head(fields))
         IN  IF p # "none" THEN [ok |-> FALSE, field |-> Head(fields), reason |-> p]
             ELSE SchemaCheck(schema, obj, Tail(fields))

InSeq(x, sq) == \E k \in 1 .. Len(sq) : sq[k] = x

-----------------------------------------------------------------------------
(* The Guards of the callbacks, by the contract of their configuration: what
   guard.validate() / guard.parse() answers for a text.  A failure of the
   schema is reported as an outcome or raised, a failing validator does what
   its on_fail says. *)

NoError == [field |-> "none", reason |-> "none", value |-> "none", listed |-> <<>>]

\* the error of a failed run: the field, the reason, the value at fault and
\* what the message lists (the choices, the substring)
GuardError(field, reason, value, listed) ==
    [field |-> field, reason |-> reason, value |-> value, listed |-> listed]

GuardOutcome(p, o, r, e, v) ==
    [kind |-> "outcome",
     o |-> [validation_passed |-> p, has_output |-> o, has_reask |-> r, error |-> e],
     exc |-> NoExc, validated |-> v]

GuardRaise(type, e) ==
    [kind |-> "raise", o |-> NoOutcome, exc |-> Exc(type, <<e>>), validated |-> EmptyObj]

\* a validator that fails: on_fail="exception" raises, on_fail="reask" gives
\* a failed outcome with a reask, the object returned or not
OnFail(on_fail, e) ==
    CASE on_fail = "exception" -> {GuardRaise("ValidationError", e)}
      [] on_fail = "reask"     -> {GuardOutcome(FALSE, o, TRUE, e, EmptyObj) : o \in BOOLEAN}
      [] OTHER                 -> {GuardOutcome(FALSE, FALSE, FALSE, e, EmptyObj)}

\* the text does not give an object of the model
SchemaFailure(e) ==
    {GuardOutcome(FALSE, FALSE, r, e, EmptyObj) : r \in BOOLEAN}
        \cup {GuardRaise("ValidationError", e)}

\* Guard.for_pydantic(output_class=schema), with its validators, on a text
PydanticGuard(schema, text) ==
    LET d == JsonDecode(text)
        c == SchemaCheck(schema, d.obj, schema.fields)
        bad == {f \in DOMAIN schema.choices :
                    f \in DOMAIN d.obj /\ ~InSeq(d.obj[f], schema.choices[f])}
    IN  IF ~d.ok THEN SchemaFailure(GuardError("none", "decode", "none", <<>>))
        ELSE IF ~c.ok THEN SchemaFailure(GuardError(c.field, c.reason, "none", <<>>))
        ELSE IF bad # {}
        THEN LET f == CHOOSE x \in bad : TRUE
             IN  OnFail(schema.on_fail,
                        GuardError(f, "not in choices", d.obj[f], schema.choices[f]))
        ELSE {GuardOutcome(TRUE, TRUE, FALSE, NoError, d.obj)}

IsSubstring(sub, t) ==
    \E k \in 0 .. Len(t) - Len(sub) : SubSeq(t, k + 1, k + Len(sub)) = sub

\* Guard().use(ContainsString(substring=..., on_fail=...)) on a text
ContainsStringGuard(substring, on_fail, text) ==
    IF IsSubstring(substring, text)
    THEN {GuardOutcome(TRUE, TRUE, FALSE, NoError, EmptyObj)}
    ELSE OnFail(on_fail, GuardError("none", "substring not found", "none", substring))

\* expected_footer = "Relatorio gerado por CrewAI & Guardrails AI.", word by word
expected_footer ==
    <<"Relatorio", " ", "gerado", " ", "por", " ", "CrewAI", " ", "&", " ",
      "Guardrails", " ", "AI", ".">>

\* variant: ContainsString(..., on_fail="noop")
footer_on_fail_noop == "noop"

\* ContainsString(substring=expected_footer, on_fail="exception")
footer_on_fail == "exception"

\* what a callback hands to its Guard: nv5 the normalised text, the others
\* output.raw
GuardInput(cb, text) ==
    IF cb = "validate_extracted_data" THEN JsonOutputStr(text) ELSE text

\* the Guard a callback builds
GuardOf(cb, text) ==
    CASE cb = "validate_sentiment_analysis"            -> PydanticGuard(SentimentAnalysisNv2, text)
      [] cb = "validate_sentiment_analysis_with_reask" -> PydanticGuard(SentimentAnalysisNv3, text)
      [] cb = "validate_extracted_data"                -> PydanticGuard(ExtractedWebData, text)
      [] cb = "validate_report_contains_footer"        ->
             ContainsStringGuard(expected_footer, footer_on_fail, text)

NoDiag == [text |-> "none", names |-> <<>>]

\* what the except clause of a callback prints before it raises again; nv4
\* names the footer it looked for
ExceptDiag(cb, e) ==
    IF cb = "validate_report_contains_footer" /\ e.type = "ValidationError"
    THEN [text |-> "A saida NAO contem a string esperada", names |-> expected_footer]
    ELSE [text |-> "Erro", names |-> <<>>]

NotHanded == <<"<not handed>">>

CallResult(v, g, handed, diag) ==
    [code |-> "callback", returns |-> v.returns, branch |-> v.branch, exc |-> v.exc,
     guard |-> g.kind, o |-> g.o, validated |-> g.validated,
     handed |-> handed, diag |-> diag]

\* a callback, from its entry to its return or raise, on the text of
\* output.raw: every result the Guard's contract allows
CallbackResults(cb, text) ==
    LET idle == GuardOutcome(FALSE, FALSE, FALSE, NoError, EmptyObj)
    IN  IF IsEmpty(text)
        THEN {CallResult(Returns("empty"), idle, NotHanded, NoDiag)}
        ELSE IF cb = "validate_extracted_data"
                /\ ~LooksLikeJsonObject(JsonOutputStr(text))
        THEN {CallResult(Raises("not_json", "ValueError",
                           <<"A saida da tarefa de estruturacao nao e um objeto JSON.">>),
                         idle, NotHanded, ExceptDiag(cb, Exc("ValueError", <<>>)))}
        ELSE {IF g.kind = "raise"
              THEN CallResult(Raises("guard_raised", g.exc.type, g.exc.msg), g,
                              GuardInput(cb, text), ExceptDiag(cb, g.exc))
              ELSE LET v == CallbackVerdict(cb, g.o)
                   IN  CallResult(v, g, GuardInput(cb, text),
                                  IF v.returns THEN NoDiag ELSE ExceptDiag(cb, v.exc))
                : g \in GuardOf(cb, GuardInput(cb, text))}

-----------------------------------------------------------------------------
(* The callbacks on texts: every callback with a Guard whose answer its
   configuration settles, on the texts a model may give it *)

Absent == "absent"

\* the object with the given values, a field left out where the value is Absent
MkObj(keys, vals) ==
    [k \in {keys[j] : j \in {x \in 1 .. Len(keys) : vals[x] # Absent}} |->
        vals[CHOOSE j \in 1 .. Len(keys) : keys[j] = k]]

SentimentObjects ==
    {MkObj(SentimentFields, <<s, m, c>>) :
        s \in {"\"positivo\"", "\"negativo\"", "\"neutro\"", "\"misto\"",
               "\"Positivo\"", "7", Absent},
        m \in {"\"t\"", "null", Absent},
        c \in {"0.9", "7", "null", "\"t\"", Absent}}

ExtractedObjects ==
    {MkObj(ExtractedWebData.fields, <<t, m>>) :
        t \in {"\"t\"", "\"u\"", "7", "null", Absent},
        m \in {"\"t\"", "\"u\"", "7", "null", Absent}}

Fence == <<BT, BT, BT>>

WhitePadding == SeqsUpTo({" ", "\n"}, MaxPad)

\* a JSON text as a model writes it: bare, or in a code fence with or without
\* the json tag, with white space around
Wrappings(body) ==
    {lead \o body \o trail : lead \in WhitePadding, trail \in WhitePadding}
    \cup {lead \o open \o nl \o body \o nl \o Fence \o trail :
            lead \in WhitePadding, trail \in WhitePadding,
            open \in {Fence, Fence \o JsonWord}, nl \in {<<>>, <<"\n">>}}

BrokenJson ==
    {WordText, ObjText, ArrayText, JsonWord, <<"{">>,
     <<"{", "\"title\"", ":", "}">>,
     <<"{", "\"title\"", "\"t\"", "}">>,
     <<"{", "\"sentiment\"", ":", "\"misto\"", ",", "}">>}

RawTexts == SeqsUpTo({BT, "j", "n", "{", "}", " ", "a"}, MaxRawLen)

SentimentTexts ==
    {JsonDumps(obj, SentimentFields) : obj \in SentimentObjects}
        \cup BrokenJson \cup {EmptyText}

ExtractedTexts ==
    UNION {Wrappings(JsonDumps(obj, ExtractedWebData.fields)) : obj \in ExtractedObjects}
        \cup BrokenJson \cup {FencedText} \cup RawTexts

FooterNearMisses ==
    {SubSeq(expected_footer, 1, Len(expected_footer) - 1),
     SubSeq(expected_footer, 3, Len(expected_footer)),
     <<"relatorio">> \o Tail(expected_footer),
     <<"Relatorio", " ", "gerado", " ", "por", " ", "CrewAI", " ", "e", " ",
       "Guardrails", " ", "AI", ".">>,
     <<>>}

FooterTexts ==
    {pre \o mid \o post :
        pre \in Padding, post \in Padding,
        mid \in FooterNearMisses \cup {expected_footer}}

CallbackTexts(cb) ==
    CASE cb \in {"validate_sentiment_analysis",
                 "validate_sentiment_analysis_with_reask"} -> SentimentTexts
      [] cb = "validate_extracted_data"                    -> ExtractedTexts
      [] cb = "validate_report_contains_footer"            -> FooterTexts

GuardCallbacks ==
    {"validate_sentiment_analysis", "validate_sentiment_analysis_with_reask",
     "validate_extracted_data", "validate_report_contains_footer"}

InitGuard ==
    /\ HarnessIdle
    /\ hpc = "ready"
    /\ hIn \in UNION {{[code |-> "callback", cb |-> cb, text |-> t] :
                          t \in CallbackTexts(cb)} : cb \in GuardCallbacks}
    /\ hOut = NoCall

\* CrewAI calls the callback of a task with the task's output
GuardCall ==
    /\ hpc = "ready"
    /\ hIn.code = "callback"
    /\ \E r \in CallbackResults(hIn.cb, hIn.text) : hOut' = r
    /\ hpc' = "done"
    /\ UNCHANGED <<hIn, pipeVars, vpc, vValue, vN, vResult>>

NextGuard == GuardCall

SpecGuard == InitGuard /\ [][NextGuard]_vars

CalledBack(cb) == hpc = "done" /\ hIn.code = "callback" /\ hIn.cb = cb

\* the three outcomes, read off a finished callback: it returned on the
\* passed branch, it asked for a reask, or it failed without one
OutcomeClass ==
    IF hOut.returns /\ hOut.branch = "passed" THEN "Passed"
    ELSE IF ~hOut.returns /\ hOut.guard = "outcome" /\ hOut.o.has_reask
              /\ hOut.branch = "reask"
    THEN "FailedRetryable"
    ELSE IF ~hOut.returns THEN "FailedTerminal"
    ELSE "None"

\* the text decodes to an object of the sentiment model whose sentiment is
\* a string other than the three allowed ones
SentimentOutsideAllowed ==
    LET d == JsonDecode(hIn.text)
    IN  /\ d.ok
        /\ SchemaCheck(SentimentAnalysisNv3, d.obj, SentimentFields).ok
        /\ d.obj["\"sentiment\""] \notin {"\"positivo\"", "\"negativo\"", "\"neutro\""}

ListsTheAllowedValues(e) ==
    {e.listed[k] : k \in DOMAIN e.listed} = {"\"positivo\"", "\"negativo\"", "\"neutro\""}

\* C12 as stated: in both sentiment callbacks a sentiment outside the allowed
\* set gives FailedRetryable with a hint that lists the allowed values, never
\* Passed and never FailedTerminal
C12_OutsideIsAlwaysRetryable ==
    ((CalledBack("validate_sentiment_analysis")
        \/ CalledBack("validate_sentiment_analysis_with_reask"))
     /\ SentimentOutsideAllowed) =>
        /\ OutcomeClass = "FailedRetryable"
        /\ ListsTheAllowedValues(hOut.o.error)

\* C12 amended: a sentiment outside the allowed set never passes; under
\* on_fail="reask" (crew_nv3/main.py) the outcome is a failure with a reask
\* whose error lists the allowed values, and the callback raises a ValueError
\* that carries it; under on_fail="exception" (crew_nv2/with-hub.py) the
\* Guard raises a ValidationError that lists them and there is no reask
C12_OutsideFailsByOnFail ==
    /\ (CalledBack("validate_sentiment_analysis_with_reask") /\ SentimentOutsideAllowed) =>
          /\ OutcomeClass = "FailedRetryable"
          /\ ListsTheAllowedValues(hOut.o.error)
          /\ hOut.exc.type = "ValueError"
          /\ hOut.exc.msg[2] = hOut.o.error
    /\ (CalledBack("validate_sentiment_analysis") /\ SentimentOutsideAllowed) =>
          /\ OutcomeClass = "FailedTerminal"
          /\ hOut.guard = "raise"
          /\ hOut.exc.type = "ValidationError"
          /\ ListsTheAllowedValues(hOut.exc.msg[1])

C12_Witness ==
    /\ CalledBack("validate_sentiment_analysis_with_reask")
    /\ hIn.text = <<"{", "\"sentiment\"", ":", "\"misto\"", ",",
                    "\"summary\"", ":", "\"t\"", "}">>
    /\ hOut.branch = "reask"
    /\ hOut.o.error.value = "\"misto\""

HasTheFooter(t) ==
    \E k \in 1 .. Len(t) :
        /\ k + 13 <= Len(t)
        /\ SubSeq(t, k, k + 13) =
              <<"Relatorio", " ", "gerado", " ", "por", " ", "CrewAI", " ", "&",
                " ", "Guardrails", " ", "AI", ".">>

\* C13: a non-empty report without the footer makes the callback raise the
\* ValidationError of the Guard, with no reask, after printing a diagnostic
\* that names the footer; a report with the footer passes
C13_FooterOrTerminal ==
    (CalledBack("validate_report_contains_footer") /\ hIn.text # <<>>) =>
        IF HasTheFooter(hIn.text)
        THEN OutcomeClass = "Passed"
        ELSE /\ OutcomeClass = "FailedTerminal"
             /\ hOut.exc.type = "ValidationError"
             /\ ~hOut.o.has_reask
             /\ hOut.diag.names =
                   <<"Relatorio", " ", "gerado", " ", "por", " ", "CrewAI", " ",
                     "&", " ", "Guardrails", " ", "AI", ".">>

C13_Witness ==
    /\ CalledBack("validate_report_contains_footer")
    /\ hIn.text = <<"A", "Relatorio", " ", "gerado", " ", "por", " ", "CrewAI",
                    " ", "&", " ", "Guardrails", " ", "AI">>
    /\ ~hOut.returns
    /\ hOut.exc.type = "ValidationError"

-----------------------------------------------------------------------------
-----------------------------------------------------------------------------
\* a value of ExtractedWebData: title and summary, both strings
ConformingExtracted ==
    {v \in ExtractedObjects :
        /\ DOMAIN v = {"\"title\"", "\"summary\""}
        /\ \A k \in DOMAIN v : v[k] \in StringTokens}

\* C15: the serialization of a value of ExtractedWebData, bare or in a code
\* fence with or without the json tag and with white space around, is
\* extracted with success and the validated object equals the value
C15_RoundTrip ==
    CalledBack("validate_extracted_data") =>
        \A v \in ConformingExtracted :
            hIn.text \in Wrappings(JsonDumps(v, <<"\"title\"", "\"summary\"">>)) =>
                /\ hOut.returns
                /\ hOut.branch = "passed"
                /\ hOut.validated = v

C15_Witness ==
    /\ CalledBack("validate_extracted_data")
    /\ hIn.text = <<" ", BT, BT, BT, "j", "s", "o", "n", "\n", "{", "\"title\"", ":",
                    "\"t\"", ",", "\"summary\"", ":", "\"u\"", "}", "\n", BT, BT, BT>>
    /\ hOut.returns
    /\ hOut.validated = MkObj(<<"\"title\"", "\"summary\"">>, <<"\"t\"", "\"u\"">>)

-----------------------------------------------------------------------------
StartsWith(t, pre) == Len(t) >= Len(pre) /\ SubSeq(t, 1, Len(pre)) = pre

EndsWith(t, suf) == Len(t) >= Len(suf) /\ SubSeq(t, Len(t) - Len(suf) + 1, Len(t)) = suf

Drop(t, k) == SubSeq(t, k + 1, Len(t))

DropLast(t, k) == SubSeq(t, 1, Len(t) - k)

\* the raw text without its surrounding white space, without a leading fence
\* and the json tag that may follow it, and without a trailing fence
FenceAndSpaceRemoved(t) ==
    LET t1 == PyStrip(t)
        t2 == IF StartsWith(t1, Fence)
              THEN IF StartsWith(Drop(t1, 3), JsonWord) THEN Drop(t1, 7) ELSE Drop(t1, 3)
              ELSE t1
        t3 == IF EndsWith(t2, Fence) THEN DropLast(t2, 3) ELSE t2
    IN  PyStrip(t3)

\* C16: the text handed to the decoder is the raw text with its surrounding
\* white space and fences (and json tag) removed, and nothing else removed
C16_OnlyFenceAndSpaceRemoved ==
    (CalledBack("validate_extracted_data") /\ hOut.handed # NotHanded) =>
        hOut.handed = FenceAndSpaceRemoved(hIn.text)

-----------------------------------------------------------------------------
\* the error a raising callback carries in its exception: the exception of
\* the Guard itself, or the error of the failed outcome put in the message
CarriedError ==
    IF hOut.guard = "raise" THEN hOut.exc.msg[1] ELSE hOut.exc.msg[2]

\* the fields of the decoded object that are required and missing, or hold a
\* value that is not of the declared type
OffendingFields(cb, obj) ==
    LET required == IF cb = "validate_extracted_data"
                    THEN {"\"title\"", "\"summary\""}
                    ELSE {"\"sentiment\"", "\"summary\""}
    IN  {f \in required : f \notin DOMAIN obj}
        \cup {f \in required \cap DOMAIN obj : obj[f] \notin StringTokens}
        \cup {f \in {"\"confidence_score\""} \cap DOMAIN obj : obj[f] \in StringTokens}

\* C17: for a non-empty text that does not decode, or lacks a required
\* field, or holds a value of the wrong type, the extracting callbacks never
\* return and validate no object; they raise an exception that carries the
\* reason and, for a field at fault, the name of that field
C17_ParseErrorNeverValue ==
    ((CalledBack("validate_extracted_data")
        \/ CalledBack("validate_sentiment_analysis_with_reask"))
     /\ hIn.text # <<>>) =>
        LET d == JsonDecode(GuardInput(hIn.cb, hIn.text))
            offending == OffendingFields(hIn.cb, d.obj)
        IN  (~d.ok \/ offending # {}) =>
                /\ ~hOut.returns
                /\ hOut.validated = EmptyObj
                /\ hOut.exc.type \in {"ValueError", "GuardrailsValidationError",
                                      "ValidationError"}
                /\ IF hOut.branch = "not_json" THEN ~d.ok
                   ELSE IF ~d.ok THEN CarriedError.reason = "decode"
                   ELSE /\ CarriedError.field \in offending
                        /\ CarriedError.reason \in {"missing", "type"}

C17_Witness ==
    /\ CalledBack("validate_extracted_data")
    /\ hIn.text = <<"{", "\"title\"", ":", "\"t\"", "}">>
    /\ hOut.exc.type = "GuardrailsValidationError"
    /\ hOut.exc.msg[2].field = "\"summary\""
    /\ hOut.exc.msg[2].reason = "missing"

-----------------------------------------------------------------------------
\* the scripts whose callback extracts an object with Guard.parse, and the
\* branches on which the extraction has failed
ParseScripts == {"nv3_main", "nv5_main"}

ParseFailed(i) == branch[i] \in {"not_json", "failed"}

\* C18 as stated: a failed extraction is followed by another attempt of the
\* step, with the reason as hint, and does not abort the run
C18_ParseErrorIsReasked ==
    (script \in ParseScripts /\ pc = "exit") =>
        \A i \in TaskIds :
            ParseFailed(i) => (genCalls[i] >= 2 /\ hints[i] # <<>> /\ exitStatus = 0)

\* C18 amended: a failed extraction makes the callback raise; the step has
\* had its one attempt and gets no other, no hint is made, the crew is
\* interrupted, and __main__ prints the error and exits with status 1
C18_ParseErrorEndsRun ==
    script \in ParseScripts =>
        \A i \in TaskIds :
            ParseFailed(i) =>
                /\ status[i] = "raised"
                /\ genCalls[i] = 1
                /\ hints[i] = <<>>
                /\ exc.type \in {"ValueError", "GuardrailsValidationError"}
                /\ pc \in {"crew_raised", "exit"}
                /\ pc = "exit" => (exitStatus = 1 /\ "diagnostic" \in printed)

C18_Witness ==
    /\ script = "nv5_main"
    /\ pc = "exit"
    /\ branch[2] = "failed"
    /\ exc.type = "GuardrailsValidationError"
    /\ exitStatus = 1

-----------------------------------------------------------------------------
ModelFailed == \E i \in TaskIds : status[i] = "failed"

\* C19: once the call of the model has failed in crew.kickoff(), the only
\* step left is the except clause of __main__: no generation, no Guard and no
\* validation follows, kickoff is not entered again, and the script ends
\* with status 1
C19_ModelFailureIsFatal ==
    [][ModelFailed =>
          /\ pc = "crew_raised"
          /\ genCalls' = genCalls
          /\ guardBuilt' = guardBuilt
          /\ valCalls' = valCalls
          /\ status' = status
          /\ pc' = "exit"
          /\ exitStatus' = 1]_vars

C19_Witness ==
    /\ script = "nv1_main"
    /\ pc = "exit"
    /\ status[2] = "failed"
    /\ genCalls[2] = 1
    /\ valCalls[2] = 0
    /\ guardBuilt[2] = 0
    /\ exitStatus = 1

-----------------------------------------------------------------------------
(* crew_nv5/custom_tool.py: WebsiteContentScraperTool._run.  A call is given
   by what the network and the page do: the outcome of requests.get, the
   HTTP status, whether the HTML parser fails, which container the page
   has, and the text of the container: its length, how it starts, and
   whether the character at the cut is a newline. *)

\* max_chars = 8000
max_chars == 8000

\* len(raw_content.strip()) < 50
min_chars == 50

HttpStatuses == {200, 204, 304, 404, 500}

ContentLengths ==
    {0, 1, min_chars - 1, min_chars, min_chars + 1,
     max_chars - 1, max_chars, max_chars + 1, max_chars + min_chars}

ScrapeScenarios ==
    [net : {"ok", "timeout", "connection_error"},
     http : HttpStatuses,
     parse : {"ok", "error"},
     container : {"main", "article", "body", "none"},
     len : ContentLengths,
     head : {"text", "[Tool Error]"},
     newline_at_cut : BOOLEAN]

ToolError(what) == [kind |-> "return", head |-> "[Tool Error]", what |-> what, len |-> 0]

ToolText(head, len) == [kind |-> "return", head |-> head, what |-> "content", len |-> len]

ToolRaise(type) == [kind |-> "raise", head |-> "none", what |-> type, len |-> 0]

\* response.raise_for_status(): HTTPError for a 4xx or 5xx status
RaisesForStatus(status_code) == status_code >= 400 /\ status_code < 600

\* variant: the text is returned whole
TruncatedNever(len) == len

\* raw_content[:max_chars]
Truncated(len) == IF len > max_chars THEN max_chars ELSE len

\* len(raw_content.strip()): get_text(strip=True) leaves no white space at
\* either end, a cut may leave one newline at the end
StrippedLen(s) ==
    IF s.len > max_chars /\ s.newline_at_cut THEN max_chars - 1 ELSE Truncated(s.len)

\* variant: _run without its last clause, except Exception
WebsiteContentScraperTool_run_one_except(s) ==
    IF s.net # "ok" THEN ToolError("Erro de Rede")
    ELSE IF RaisesForStatus(s.http) THEN ToolError("Erro de Rede")
    ELSE IF s.parse = "error" THEN ToolRaise("Exception")
    ELSE IF s.container = "none" THEN ToolError("Tag 'body' nao encontrada")
    ELSE IF StrippedLen(s) < min_chars
    THEN ToolError("Conteudo significativo nao encontrado ou muito curto")
    ELSE ToolText(s.head, Truncated(s.len))

\* variant: _run without its except clauses
WebsiteContentScraperTool_run_raising(s) ==
    IF s.net # "ok" THEN ToolRaise("RequestException")
    ELSE IF RaisesForStatus(s.http) THEN ToolRaise("HTTPError")
    ELSE IF s.parse = "error" THEN ToolRaise("Exception")
    ELSE IF s.container = "none" THEN ToolError("Tag 'body' nao encontrada")
    ELSE IF StrippedLen(s) < min_chars
    THEN ToolError("Conteudo significativo nao encontrado ou muito curto")
    ELSE ToolText(s.head, Truncated(s.len))

\* _run(website_url): the scraped text or an error string
WebsiteContentScraperTool_run(s) ==
    IF s.net # "ok" THEN ToolError("Erro de Rede")
    ELSE IF RaisesForStatus(s.http) THEN ToolError("Erro de Rede")
    ELSE IF s.parse = "error" THEN ToolError("Erro durante o scraping")
    ELSE IF s.container = "none" THEN ToolError("Tag 'body' nao encontrada")
    ELSE IF StrippedLen(s) < min_chars
    THEN ToolError("Conteudo significativo nao encontrado ou muito curto")
    ELSE ToolText(s.head, Truncated(s.len))

InitScrape ==
    /\ HarnessIdle
    /\ hpc = "ready"
    /\ hIn \in {[code |-> "scrape", scenario |-> s] : s \in ScrapeScenarios}
    /\ hOut = NoCall

\* the agent calls the tool
ScrapeCall ==
    /\ hpc = "ready"
    /\ hIn.code = "scrape"
    /\ hOut' = [code |-> "scrape", result |-> WebsiteContentScraperTool_run(hIn.scenario)]
    /\ hpc' = "done"
    /\ UNCHANGED <<hIn, pipeVars, vpc, vValue, vN, vResult>>

NextScrape == ScrapeCall

SpecScrape == InitScrape /\ [][NextScrape]_vars

Scraped == hpc = "done" /\ hIn.code = "scrape"

\* the three cases in which the fetch is to fail: a status outside 2xx, a
\* network error, fewer than 50 characters of content
NetworkError == hIn.scenario.net # "ok"

Non2xx == hIn.scenario.net = "ok" /\ ~(hIn.scenario.http \in 200 .. 299)

TooShort ==
    /\ hIn.scenario.net = "ok"
    /\ hIn.scenario.http \in 200 .. 299
    /\ hIn.scenario.parse = "ok"
    /\ hIn.scenario.container # "none"
    /\ hIn.scenario.len < 50

\* C20 as stated: on a status outside 2xx, a network error or content under
\* 50 characters the fetch fails with an error that is not a text result
C20_FetchFailsWithError ==
    (Scraped /\ (NetworkError \/ Non2xx \/ TooShort)) => hOut.result.kind = "raise"

\* C20 amended: the tool never raises; on a network error, a 4xx or 5xx
\* status, or content under 50 characters it returns a text that starts with
\* [Tool Error] and says which, as its result; a status outside 2xx below
\* 400 is not an error by itself
C20_FetchReturnsErrorText ==
    Scraped =>
        /\ hOut.result.kind = "return"
        /\ (NetworkError \/ (Non2xx /\ hIn.scenario.http >= 400)) =>
              (hOut.result.head = "[Tool Error]" /\ hOut.result.what = "Erro de Rede")
        /\ TooShort =>
              /\ hOut.result.head = "[Tool Error]"
              /\ hOut.result.what = "Conteudo significativo nao encontrado ou muito curto"
        /\ (Non2xx /\ hIn.scenario.http < 400 /\ hIn.scenario.parse = "ok"
            /\ hIn.scenario.container # "none" /\ hIn.scenario.len >= 50) =>
              hOut.result.what = "content"

C20_Witness ==
    /\ Scraped
    /\ hIn.scenario.net = "ok"
    /\ hIn.scenario.http = 404
    /\ hOut.result.kind = "return"
    /\ hOut.result.head = "[Tool Error]"

-----------------------------------------------------------------------------
ReturnedContent == Scraped /\ hOut.result.what = "content"

\* C21: a returned content has at most 8000 characters; a cleaned text of
\* more than 8000 characters is returned as its first 8000, with the start it
\* had, and a shorter one is returned whole
C21_TruncatedTo8000 ==
    ReturnedContent =>
        /\ hOut.result.len <= 8000
        /\ hOut.result.head = hIn.scenario.head
        /\ hIn.scenario.len > 8000 => hOut.result.len = 8000
        /\ hIn.scenario.len <= 8000 => hOut.result.len = hIn.scenario.len

C21_Witness ==
    /\ ReturnedContent
    /\ hIn.scenario.len = 8001
    /\ hOut.result.len = 8000

-----------------------------------------------------------------------------
\* the run has met an error it cannot recover from: the model has failed, or
\* a validation has failed for good
Unrecoverable == \E i \in TaskIds : status[i] \in {"failed", "raised"}

\* the final output has been printed: as the validated output, or, for an
\* empty output that is not validated, as the raw output of the crew
FinalOutputPrinted ==
    \/ "final_output" \in printed
    \/ {"raw_output", "validation_skipped"} \subseteq printed

\* C22: a script that has met an unrecoverable error has printed a diagnostic
\* and ends with a status other than zero, and a script that ends with status
\* zero has printed the final output
C22_ExitStatusTellsOutcome ==
    pc = "exit" =>
        /\ Unrecoverable =>
              /\ printed \cap {"diagnostic", "validation_failure"} # {}
              /\ exitStatus # 0
        /\ exitStatus = 0 => FinalOutputPrinted

-----------------------------------------------------------------------------
ConfigurationError(i) == branch[i] = "guard_init_error"

-----------------------------------------------------------------------------
\* the outcome a callback has settled on, by the branch it took
VariantOf(b) ==
    CASE b = "passed" -> "Passed"
      [] b = "reask"  -> "FailedRetryable"
      [] b \in {"failed", "no_data", "failed_else"} -> "FailedTerminal"
      [] OTHER -> "None"

\* a callback with an if/elif chain over the outcome has taken a branch of it
Branched(i) ==
    /\ Callback(script, i) \in {"validate_sentiment_analysis_with_reask",
                                "validate_jailbreak_attempt",
                                "validate_sentiment_analysis"}
    /\ VariantOf(branch[i]) # "None"

\* C24: the branch a callback takes is settled by validation_passed,
\* validated_output and reask alone, one branch for every combination: passed
\* with an output is Passed, a failure with a reask is FailedRetryable where
\* the callback tells the two apart, everything else is FailedTerminal; a
\* FailedRetryable outcome has a reask and an error, which the exception of
\* the callback carries
C24_ExactlyOneVariant ==
    \A i \in TaskIds :
        Branched(i) =>
            LET o == outcome
                v == VariantOf(branch[i])
                tellsReask == Callback(script, i) # "validate_sentiment_analysis"
            IN  /\ v = "Passed" <=> (o.validation_passed /\ o.has_output)
                /\ v = "FailedRetryable" <=>
                      (tellsReask /\ ~o.validation_passed /\ o.has_reask)
                /\ v = "FailedTerminal" <=>
                      \/ o.validation_passed /\ ~o.has_output
                      \/ ~o.validation_passed /\ (~o.has_reask \/ ~tellsReask)
                /\ status[i] = (IF v = "Passed" THEN "returned" ELSE "raised")
                /\ v = "FailedRetryable" =>
                      /\ o.has_reask
                      /\ o.error # "None"
                      /\ exc.msg # <<>>
                      /\ \E k \in DOMAIN exc.msg : exc.msg[k] = o.error

C24_Witness ==
    /\ script = "nv3_hub"
    /\ branch[1] = "reask"
    /\ outcome.has_reask
    /\ ~outcome.validation_passed
    /\ status[1] = "raised"

-----------------------------------------------------------------------------
\* print(f"Erro: {e}"): the description of a failure is the message of the
\* exception; it mentions what is one of its parts
Mentions(msg, part) == \E k \in DOMAIN msg : msg[k] = part

RunSucceeded ==
    /\ exitStatus = 0
    /\ "final_output" \in printed
    /\ \A i \in TaskIds : status[i] = "returned"

ValidationFailed(i) == status[i] = "raised" /\ branch[i] \in {"reask", "failed"}

-----------------------------------------------------------------------------
-----------------------------------------------------------------------------
RaisingCallbacks ==
    {"validate_sentiment_analysis", "validate_sentiment_analysis_with_reask",
     "validate_jailbreak_attempt", "validate_extracted_data"}

CallbackDone(i) ==
    /\ Callback(script, i) \in RaisingCallbacks
    /\ status[i] \in {"returned", "raised"}

\* C27: a callback of the sentiment, jailbreak and extraction examples has
\* returned iff the raw output was empty or the Guard gave an outcome with
\* validation_passed and a validated output; in every other case it has
\* raised, and then the crew is interrupted: no later task is started
C27_ReturnsIffEmptyOrPassed ==
    \A i \in TaskIds :
        CallbackDone(i) =>
            /\ status[i] = "returned" <=>
                  \/ IsEmpty(raw[i])
                  \/ outcome.validation_passed /\ outcome.has_output
            /\ status[i] = "raised" =>
                  /\ pc \in {"crew_raised", "exit"}
                  /\ \A j \in TaskIds : j > i => genCalls[j] = 0

C27_Witness ==
    /\ script = "nv5_main"
    /\ status[2] = "raised"
    /\ branch[2] = "no_data"
    /\ outcome.validation_passed
    /\ ~outcome.has_output
    /\ pc = "exit"

-----------------------------------------------------------------------------
-----------------------------------------------------------------------------
\* the ways a scrape fails: the request, the status, the parser, the page
\* without a container, the content too short
ScrapeFailure ==
    LET s == hIn.scenario
    IN  IF s.net # "ok" THEN "network"
        ELSE IF s.http >= 400 THEN "http"
        ELSE IF s.parse # "ok" THEN "parse"
        ELSE IF s.container = "none" THEN "no body"
        ELSE IF s.len < 50 THEN "too short"
        ELSE "none"

\* C29: _run never raises: whatever the request, the status, the parser and
\* the page do, it returns a string, the scraped text when nothing failed and
\* an error message when something did
C29_RunAlwaysReturnsString ==
    Scraped =>
        /\ hOut.result.kind = "return"
        /\ ScrapeFailure = "none" => hOut.result.what = "content"
        /\ ScrapeFailure # "none" => hOut.result.what # "content"

C29_Witness ==
    /\ Scraped
    /\ ScrapeFailure = "parse"
    /\ hOut.result.kind = "return"
    /\ hOut.result.what = "Erro durante o scraping"

\* teste_tool.py: result.startswith("[Tool Error]")
StartsWithToolError(result) == result.head = "[Tool Error]"

\* C30: the result of _run starts with [Tool Error] iff the scrape failed
C30_PrefixIffFailed ==
    Scraped => (StartsWithToolError(hOut.result) <=> ScrapeFailure # "none")

====
